---- MODULE Spec2Model ----
(***************************************************************************)
(* Model of the ADS1100 driver (src/ads1100.py): the shadow configuration  *)
(* register, the stored mode / rate / gain, the shared 3-byte buffer and   *)
(* the bus transfers every property and setter performs.                   *)
(*                                                                         *)
(* Voltages are rationals [num, den] in millivolts: the reference voltage  *)
(* 3.3 is the integer 3300.  The I2C device is the environment: it may     *)
(* fail any transfer (OSError) and answers a read with three bytes.        *)
(***************************************************************************)
EXTENDS Integers, Sequences, FiniteSets, TLC

VARIABLES
    i2c_addr,           \* self._addr
    reference_voltage,  \* self._reference_voltage, in millivolts
    pressure_ratio,     \* self._pressure_ratio
    config,             \* self._config, the shadow register
    mode,               \* self._mode
    rate,               \* self._rate
    gain,               \* self._gain
    BUFFER,             \* ADS1100._BUFFER
    op,                 \* the last call: [name, arg]
    outcome,            \* "ok", "ValueError" or "OSError" of the last call
    result,             \* what the last value read returned (NoneVal = None)
    volt,               \* what the last voltage read returned
    log,                \* the bus transfers the last call attempted
    devByte,            \* most recent byte written to / status read from the device
    attempted,          \* some bus transfer has been attempted
    echoed,             \* every status byte read so far carried bits 4-0 as written
    calls               \* number of calls made so far

vars == <<i2c_addr, reference_voltage, pressure_ratio, config, mode, rate,
          gain, BUFFER, op, outcome, result, volt, log, devByte, attempted,
          echoed, calls>>

----------------------------------------------------------------------------
(* Bounds of the model *)

\* how many of SampleWords the device may deliver as a conversion result
NumSamples == 2
\* how many of FlipMasks the device may apply to the register it echoes
NumFlips == 3
\* how many calls of the driver one behaviour makes
MaxCalls == 3

SampleWords == <<16384, 0, 65535, 4660, 32768, 255>>
FlipMasks == <<0, 16, 32, 4, 1, 8, 2, 64>>

----------------------------------------------------------------------------
(* Constants of the module *)

ADS1100_DEFAULT_ADDRESS == 72
ST_BSY_BIT == 128
SC_BIT == 16
DR_BIT == 12
PGA_BIT == 3
DATA_RATE == <<128, 32, 16, 8>>
GAINS == <<1, 2, 4, 8>>
MIN_CODE == [r \in {128, 32, 16, 8} |->
                CASE r = 128 -> -2048
                  [] r = 32  -> -8192
                  [] r = 16  -> -16384
                  [] r = 8   -> -32768]
CONTINUOUS == 0
SINGLE == 1
INIT_CONFIG == 140
BUFFER_LEN == 3
WORD_MASK == 65535

NoneVal == -1
NoVolt == [num |-> 0, den |-> 0]

----------------------------------------------------------------------------
(* Python integer operators *)

RECURSIVE And(_, _)
And(a, b) == IF a = 0 \/ b = 0 THEN 0
             ELSE (a % 2) * (b % 2) + 2 * And(a \div 2, b \div 2)

Or(a, b) == a + b - And(a, b)

\* a & (~m) on unbounded integers, a >= 0 and m >= 0
AndNot(a, m) == a - And(a, m)

RECURSIVE Shl(_, _)
Shl(a, n) == IF n = 0 THEN a ELSE Shl(2 * a, n - 1)

\* a single-bit mask applied as exclusive or
Flip(a, m) == IF m = 0 THEN a
              ELSE IF And(a, m) = 0 THEN a + m ELSE a - m

\* tuple.index(x), zero based
IndexOf(t, x) == (CHOOSE i \in 1..Len(t) : t[i] = x) - 1

InTuple(t, x) == \E i \in 1..Len(t) : t[i] = x

ToBytes2(n) == <<n \div 256, n % 256>>
\* int.to_bytes(1, 'big')
ToBytes1(n) == <<n>>

----------------------------------------------------------------------------
(* The pure parts of the driver *)

IsReadyBusyOnly(cfg) == And(cfg, ST_BSY_BIT) = 0
\* the readiness test of value
IsReady(cfg) ==
    \/ And(cfg, SC_BIT) = 0
    \/ /\ And(cfg, SC_BIT) > 0
       /\ And(cfg, ST_BSY_BIT) = 0

DecodeLittle(buf) == And(Or(Shl(buf[2], 8), buf[1]), WORD_MASK)
\* the 16-bit pattern value returns
Decode(buf) == And(Or(Shl(buf[1], 8), buf[2]), WORD_MASK)

ModeConfigNoClear(cfg, m) == Or(cfg, Shl(m, 4))
\* the register the mode setter builds
ModeConfig(cfg, m) == Or(AndNot(cfg, SC_BIT), Shl(m, 4))

RateConfigShift1(cfg, r) == Or(AndNot(cfg, DR_BIT), Shl(IndexOf(DATA_RATE, r), 1))
RateConfigWideMask(cfg, r) == Or(AndNot(cfg, DR_BIT + PGA_BIT), Shl(IndexOf(DATA_RATE, r), 2))
\* the register the rate setter builds
RateConfig(cfg, r) == Or(AndNot(cfg, DR_BIT), Shl(IndexOf(DATA_RATE, r), 2))

GainConfigValue(cfg, g) == Or(AndNot(cfg, PGA_BIT), And(g, PGA_BIT))
\* the register the gain setter builds
GainConfig(cfg, g) == Or(AndNot(cfg, PGA_BIT), IndexOf(GAINS, g))

VoltageOfNoGain(value, r, g, ref, ratio) ==
    IF value = NoneVal THEN [num |-> 0, den |-> 1]
    ELSE [num |-> value * ref * ratio, den |-> -1 * MIN_CODE[r]]
\* the voltage computed from a value: ((value / (-min * gain)) * ref) * ratio
VoltageOf(value, r, g, ref, ratio) ==
    IF value = NoneVal THEN [num |-> 0, den |-> 1]
    ELSE [num |-> value * ref * ratio, den |-> -1 * MIN_CODE[r] * g]

\* the getters
GetMode == mode
GetRate == rate
GetGain == gain

----------------------------------------------------------------------------
(* The environment: what the device answers to a read after `written` *)

Samples == {SampleWords[i] : i \in 1..NumSamples}
Masks == {FlipMasks[i] : i \in 1..NumFlips}

Responses(written) ==
    {<<w \div 256, w % 256, b * ST_BSY_BIT + Flip(written % 128, m)>> :
        w \in Samples, b \in {0, 1}, m \in Masks}

ModeInputs == {CONTINUOUS, SINGLE}
RateInputs == {128, 32, 16, 8, 64}
GainInputs == {1, 2, 4, 8, 3}

Write(addr, bytes) == [kind |-> "write", addr |-> addr, data |-> bytes, len |-> Len(bytes)]
Read(addr, n) == [kind |-> "read", addr |-> addr, data |-> <<>>, len |-> n]

----------------------------------------------------------------------------

Init ==
    /\ \E c \in {<<ADS1100_DEFAULT_ADDRESS, 3300, 2>>, <<73, 5000, 1>>} :
          /\ i2c_addr = c[1]
          /\ reference_voltage = c[2]
          /\ pressure_ratio = c[3]
    /\ config = INIT_CONFIG
    /\ mode = CONTINUOUS
    /\ rate = 8
    /\ gain = 1
    /\ BUFFER = <<0, 0, 0>>
    /\ op = [name |-> "init", arg |-> 0]
    /\ outcome = "ok"
    /\ result = NoneVal
    /\ volt = NoVolt
    /\ log = <<>>
    /\ devByte = NoneVal
    /\ attempted = FALSE
    /\ echoed = TRUE
    /\ calls = 0

\* the body of the value property; fail names the transfer that raises OSError
ReadValue(fail, resp) ==
    /\ attempted' = TRUE
    /\ UNCHANGED <<i2c_addr, reference_voltage, pressure_ratio, mode, rate, gain>>
    /\ IF fail = "write"
       THEN /\ log' = <<Write(i2c_addr, ToBytes1(config))>>
            /\ outcome' = "OSError"
            /\ result' = NoneVal
            /\ UNCHANGED <<config, BUFFER, devByte, echoed>>
       ELSE IF fail = "read"
       THEN /\ log' = <<Write(i2c_addr, ToBytes1(config)), Read(i2c_addr, BUFFER_LEN)>>
            /\ outcome' = "OSError"
            /\ result' = NoneVal
            /\ devByte' = config
            /\ UNCHANGED <<config, BUFFER, echoed>>
       ELSE /\ log' = <<Write(i2c_addr, ToBytes1(config)), Read(i2c_addr, BUFFER_LEN)>>
            /\ BUFFER' = resp
            /\ config' = BUFFER'[3]
            /\ devByte' = BUFFER'[3]
            /\ echoed' = (echoed /\ resp[3] % 32 = config % 32)
            /\ outcome' = "ok"
            /\ result' = IF IsReady(config') THEN Decode(BUFFER') ELSE NoneVal

\* the transfers of one read: both succeed with a response, or one raises
Transfers(written) ==
    {<<"none", resp>> : resp \in Responses(written)}
        \cup {<<"write", <<0, 0, 0>> >>, <<"read", <<0, 0, 0>> >>}

Value ==
    \E t \in Transfers(config) :
        /\ ReadValue(t[1], t[2])
        /\ op' = [name |-> "value", arg |-> 0]
        /\ volt' = NoVolt

Voltage ==
    \E t \in Transfers(config) :
        /\ ReadValue(t[1], t[2])
        /\ op' = [name |-> "voltage", arg |-> 0]
        /\ volt' = IF outcome' = "ok"
                   THEN VoltageOf(result', rate, gain, reference_voltage, pressure_ratio)
                   ELSE NoVolt

\* the single-byte write that ends every setter
WriteConfig(fail) ==
    /\ log' = <<Write(i2c_addr, ToBytes1(config'))>>
    /\ attempted' = TRUE
    /\ outcome' = IF fail THEN "OSError" ELSE "ok"
    /\ devByte' = IF fail THEN devByte ELSE config'
    /\ result' = NoneVal
    /\ volt' = NoVolt

Rejected ==
    /\ outcome' = "ValueError"
    /\ log' = <<>>
    /\ result' = NoneVal
    /\ volt' = NoVolt
    /\ UNCHANGED <<config, mode, rate, gain, devByte, attempted>>

SetMode(m) ==
    /\ op' = [name |-> "set_mode", arg |-> m]
    /\ mode' = m
    /\ config' = ModeConfig(config, m)
    /\ \E fail \in BOOLEAN : WriteConfig(fail)
    /\ UNCHANGED <<i2c_addr, reference_voltage, pressure_ratio, rate, gain,
                   BUFFER, echoed>>

SetRate(data_rate) ==
    /\ op' = [name |-> "set_rate", arg |-> data_rate]
    /\ IF ~InTuple(DATA_RATE, data_rate)
       THEN Rejected
       ELSE /\ rate' = data_rate
            /\ config' = RateConfig(config, data_rate)
            /\ \E fail \in BOOLEAN : WriteConfig(fail)
            /\ UNCHANGED <<mode, gain>>
    /\ UNCHANGED <<i2c_addr, reference_voltage, pressure_ratio, BUFFER,
                   echoed>>

SetGainStoreFirst(g) ==
    /\ op' = [name |-> "set_gain", arg |-> g]
    /\ IF ~InTuple(GAINS, g)
       THEN /\ gain' = g
            /\ outcome' = "ValueError"
            /\ log' = <<>>
            /\ result' = NoneVal
            /\ volt' = NoVolt
            /\ UNCHANGED <<config, mode, rate, devByte, attempted>>
       ELSE /\ gain' = g
            /\ config' = GainConfig(config, g)
            /\ \E fail \in BOOLEAN : WriteConfig(fail)
            /\ UNCHANGED <<mode, rate>>
    /\ UNCHANGED <<i2c_addr, reference_voltage, pressure_ratio, BUFFER,
                   echoed>>
SetGain(g) ==
    /\ op' = [name |-> "set_gain", arg |-> g]
    /\ IF ~InTuple(GAINS, g)
       THEN Rejected
       ELSE /\ gain' = g
            /\ config' = GainConfig(config, g)
            /\ \E fail \in BOOLEAN : WriteConfig(fail)
            /\ UNCHANGED <<mode, rate>>
    /\ UNCHANGED <<i2c_addr, reference_voltage, pressure_ratio, BUFFER,
                   echoed>>

\* one more call, while the behaviour has calls left
Call ==
    /\ calls < MaxCalls
    /\ calls' = calls + 1

Next ==
    \/ Call /\ Value
    \/ Call /\ Voltage
    \/ \E m \in ModeInputs : Call /\ SetMode(m)
    \/ \E r \in RateInputs : Call /\ SetRate(r)
    \/ \E g \in GainInputs : Call /\ SetGain(g)

Spec == Init /\ [][Next]_vars

TypeOK ==
    /\ config \in 0..255
    /\ mode \in {0, 1}
    /\ InTuple(DATA_RATE, rate)
    /\ InTuple(GAINS, gain)
    /\ Len(BUFFER) = BUFFER_LEN
    /\ \A i \in 1..3 : BUFFER[i] \in 0..255
    /\ outcome \in {"ok", "ValueError", "OSError"}
    /\ result \in 0..65535 \cup {NoneVal}

----------------------------------------------------------------------------
(* Vocabulary of the properties, by arithmetic on the register value *)

Bit(n, k) == (n \div (2 ^ k)) % 2
DRField(n) == (n \div 4) % 4
PGAField(n) == n % 4

RateIndex(r) == CASE r = 128 -> 0 [] r = 32 -> 1 [] r = 16 -> 2 [] r = 8 -> 3 [] OTHER -> -1
GainIndex(g) == CASE g = 1 -> 0 [] g = 2 -> 1 [] g = 4 -> 2 [] g = 8 -> 3 [] OTHER -> -1
FullScale(r) == CASE r = 128 -> 2048 [] r = 32 -> 8192 [] r = 16 -> 16384 [] r = 8 -> 32768 [] OTHER -> 0

RECURSIVE Gcd(_, _)
Gcd(a, b) == IF b = 0 THEN a ELSE Gcd(b, a % b)

\* a non-negative rational in lowest terms
Norm(q) == LET g == Gcd(q.num, q.den) IN [num |-> q.num \div g, den |-> q.den \div g]

Absent(status) == Bit(status, 4) = 1 /\ Bit(status, 7) = 1

Succeeded(name) == op.name = name /\ outcome = "ok"

----------------------------------------------------------------------------

\* C1: after a set rate(r) with r in {128, 32, 16, 8} the rate getter returns r
\* and the byte written to the device has bits 3-2 equal to the index of r in
\* (128, 32, 16, 8); after a set gain(g) with g in {1, 2, 4, 8} the gain getter
\* returns g and the written byte has bits 1-0 equal to the index of g.
C1_RoundTrip ==
    /\ Succeeded("set_rate") =>
          /\ GetRate = op.arg
          /\ Len(log) = 1 /\ log[1].kind = "write"
          /\ DRField(log[1].data[1]) = RateIndex(op.arg)
    /\ Succeeded("set_gain") =>
          /\ GetGain = op.arg
          /\ Len(log) = 1 /\ log[1].kind = "write"
          /\ PGAField(log[1].data[1]) = GainIndex(op.arg)

C1_Witness ==
    /\ Succeeded("set_rate") /\ op.arg = 32
    /\ gain = 4 /\ PGAField(config) = 2 /\ DRField(config) = 1

\* C2: a set rate outside {128, 32, 16, 8} or a set gain outside {1, 2, 4, 8}
\* raises the invalid-argument error, attempts no bus transfer and leaves the
\* stored rate, gain, mode and the shadow config as they were.
C2_Rejected ==
    [][ (\/ op'.name = "set_rate" /\ op'.arg \notin {128, 32, 16, 8}
         \/ op'.name = "set_gain" /\ op'.arg \notin {1, 2, 4, 8})
        => /\ outcome' = "ValueError"
           /\ log' = <<>>
           /\ attempted' = attempted
           /\ rate' = rate /\ gain' = gain /\ mode' = mode /\ config' = config ]_vars

C2_Witness ==
    /\ op.name = "set_gain" /\ op.arg = 3 /\ outcome = "ValueError"
    /\ gain = 2 /\ config # INIT_CONFIG

\* C3: a read of the response [MSB, LSB, status] is absent exactly when status
\* has bit 4 and bit 7 set; otherwise it is MSB * 256 + LSB, in 0..65535.
C3_Readiness ==
    Succeeded("value") =>
        /\ result = NoneVal <=> Absent(BUFFER[3])
        /\ ~Absent(BUFFER[3]) =>
              /\ result = BUFFER[1] * 256 + BUFFER[2]
              /\ result \in 0..65535

C3_Witness ==
    /\ Succeeded("value")
    /\ BUFFER[1] = 0 /\ BUFFER[2] = 0 /\ Bit(BUFFER[3], 4) = 1
    /\ result = 0

\* C4 as stated: whenever the mode getter returns CONTINUOUS, a completed read
\* returns a present value for every response of the device.
C4_Original ==
    (Succeeded("value") /\ GetMode = CONTINUOUS) => result # NoneVal

\* C4 amended: a completed read is present, whatever bit 7 of the status, when
\* the status byte has bit 4 clear; this is so whenever the mode getter returns
\* CONTINUOUS and every status byte read so far carried bits 4-0 as written.
C4_Amended ==
    Succeeded("value") =>
        /\ Bit(BUFFER[3], 4) = 0 => result # NoneVal
        /\ (echoed /\ GetMode = CONTINUOUS) => result # NoneVal

C4_Witness ==
    /\ Succeeded("value") /\ GetMode = CONTINUOUS /\ echoed
    /\ Bit(BUFFER[3], 7) = 1
    /\ result = 16384

\* C5: set mode(m), m in {0, 1}, makes exactly one bus write of one byte whose
\* bit 4 is m; afterwards the mode getter returns m and bit 4 of the shadow
\* config is m.  SINGLE followed by CONTINUOUS sets and then clears bit 4 with
\* two writes in total.
C5_ModeSet ==
    [][ (op'.name = "set_mode" /\ outcome' = "ok")
        => /\ Len(log') = 1
           /\ log'[1].kind = "write" /\ log'[1].len = 1
           /\ Bit(log'[1].data[1], 4) = op'.arg
           /\ mode' = op'.arg
           /\ Bit(config', 4) = op'.arg
           /\ (Succeeded("set_mode") /\ op.arg = SINGLE /\ op'.arg = CONTINUOUS)
                 => /\ Len(log) + Len(log') = 2
                    /\ Bit(log[1].data[1], 4) = 1
                    /\ Bit(log'[1].data[1], 4) = 0 ]_vars

C5_Witness ==
    /\ Succeeded("set_mode") /\ op.arg = CONTINUOUS
    /\ calls = 2 /\ Bit(BUFFER[3], 4) = 1 /\ Bit(config, 4) = 0

\* C6: once a bus transfer has gone through, the shadow config equals the more
\* recent of the last byte written to the device and the last status byte read
\* from it, transfers that raise included.
C6_ShadowReflectsDevice ==
    (attempted /\ devByte # NoneVal) => config = devByte

\* C7: a voltage read makes one value read; absent gives 0, a present raw gives
\* raw * referenceVoltage * pressureRatio / (-minCode[rate] * gain) with raw the
\* unsigned 16-bit value; rate 8, gain 1, 3.3 V, ratio 2, raw 16384 give 3.3 V.
C7_Voltage ==
    Succeeded("voltage") =>
        LET raw == BUFFER[1] * 256 + BUFFER[2] IN
        /\ Len(log) = 2
        /\ Absent(BUFFER[3]) => volt.num = 0 /\ volt.den # 0
        /\ ~Absent(BUFFER[3]) =>
              /\ volt.den > 0
              /\ Norm(volt) = Norm([num |-> raw * reference_voltage * pressure_ratio,
                                    den |-> FullScale(GetRate) * GetGain])
        /\ (/\ ~Absent(BUFFER[3]) /\ raw = 16384 /\ GetRate = 8 /\ GetGain = 1
            /\ reference_voltage = 3300 /\ pressure_ratio = 2)
              => Norm(volt) = [num |-> 3300, den |-> 1]

C7_Witness ==
    /\ Succeeded("voltage")
    /\ BUFFER[1] * 256 + BUFFER[2] = 16384 /\ ~Absent(BUFFER[3])
    /\ GetGain = 4 /\ GetRate = 8
    /\ reference_voltage = 3300 /\ pressure_ratio = 2
    /\ Norm(volt) = [num |-> 825, den |-> 1]

\* C8: a completed value read makes two transfers: a 1-byte write, to the
\* driver's address, of the shadow config the call started with, then a 3-byte
\* read from that address; the shadow becomes the third byte read and the
\* readiness decision is taken on it.  No call writes more than one byte or
\* uses another address.
C8_Transfers ==
    [][ /\ (op'.name \in {"value", "voltage"} /\ outcome' = "ok")
           => /\ log' = <<[kind |-> "write", addr |-> i2c_addr,
                           data |-> <<config>>, len |-> 1],
                          [kind |-> "read", addr |-> i2c_addr,
                           data |-> <<>>, len |-> 3]>>
              /\ config' = BUFFER'[3]
              /\ result' = NoneVal <=> Absent(config')
        /\ \A i \in 1..Len(log') :
              /\ log'[i].addr = i2c_addr
              /\ log'[i].kind = "write" => log'[i].len = 1 ]_vars

C8_Witness ==
    /\ Succeeded("value")
    /\ Len(log) = 2 /\ log[1].data[1] # config
    /\ result = NoneVal

\* C9 as stated: in every reachable state bit 4 of the shadow config is the
\* stored mode, bits 3-2 the index of the stored rate and bits 1-0 the index
\* of the stored gain, whatever status bytes the device returned.
C9_Original ==
    /\ Bit(config, 4) = mode
    /\ DRField(config) = RateIndex(rate)
    /\ PGAField(config) = GainIndex(gain)

\* C9 amended: the shadow config agrees with the stored mode, rate and gain in
\* every reachable state in which every status byte read so far carried in
\* bits 4-0 the bits 4-0 of the byte written just before the read.
C9_Amended ==
    echoed =>
        /\ Bit(config, 4) = mode
        /\ DRField(config) = RateIndex(rate)
        /\ PGAField(config) = GainIndex(gain)

C9_Witness ==
    /\ echoed /\ Succeeded("value")
    /\ gain = 4 /\ mode = SINGLE
    /\ Bit(config, 7) = 0 /\ Bit(config, 5) = 1

\* C10: a successful set mode changes at most bit 4 of the shadow config, a
\* set rate at most bits 3-2, a set gain at most bits 1-0; the byte written is
\* the new shadow config and the two other stored settings are unchanged.
C10_Frame ==
    [][ /\ (op'.name = "set_mode" /\ outcome' = "ok")
           => /\ config' - 16 * Bit(config', 4) = config - 16 * Bit(config, 4)
              /\ log'[1].data[1] = config'
              /\ rate' = rate /\ gain' = gain
        /\ (op'.name = "set_rate" /\ outcome' = "ok")
           => /\ config' - 4 * DRField(config') = config - 4 * DRField(config)
              /\ log'[1].data[1] = config'
              /\ mode' = mode /\ gain' = gain
        /\ (op'.name = "set_gain" /\ outcome' = "ok")
           => /\ config' - PGAField(config') = config - PGAField(config)
              /\ log'[1].data[1] = config'
              /\ mode' = mode /\ rate' = rate ]_vars

C10_Witness ==
    /\ Succeeded("set_rate") /\ op.arg = 16
    /\ Bit(config, 5) = 1 /\ Bit(config, 7) = 1 /\ PGAField(config) = 3

====
